---------------------------- MODULE Spec2Model ----------------------------
(***************************************************************************)
(* A model of the common-emitter amplifier simulator of src/CEA.py:        *)
(* the CEAComponents parameter object, the CEASimulator that stores a      *)
(* reference to it, the simulator's operations, and the update_dashboard   *)
(* callback of create_unified_dashboard.                                   *)
(*                                                                         *)
(* Numbers.  The program computes with Python floats.  The model computes  *)
(* with exact rationals <<n, d>> (d > 0, lowest terms), so a denominator   *)
(* is zero in the model exactly when the mathematical value is zero; the   *)
(* parameter values below are chosen so that the float computation hits    *)
(* the same zero denominators (Python raises ZeroDivisionError on a float  *)
(* division by 0.0, it does not return inf or nan).                        *)
(***************************************************************************)
EXTENDS Integers, Sequences, FiniteSets, TLC

VARIABLES
    comp,     \* the CEAComponents object (shared by reference with the caller)
    built,    \* TRUE once a CEASimulator(...) call has returned an object
    sim,      \* the attributes of the simulator object the caller holds
    call,     \* the operation performed by the last step
    arg,      \* what the last call was passed: a sample count, or the
              \* argument tuple of calculate_frequency_response
    err,      \* the exception the last operation raised, "none" if it returned
    line,     \* the source line that raised it, 0 if none
    ret,      \* the arrays the last on-demand operation returned
    nset,     \* how many parameter assignments the caller has made
    hist,     \* log of the completed evaluations: <<[params, vals], ...>>
    heap,     \* the simulator objects of the dashboard, by identity
    cb        \* the update_dashboard callbacks: position, arguments, locals

vars == <<comp, built, sim, call, arg, err, line, ret, nset, hist, heap, cb>>

\* the variables of a script that drives one simulator, and of the dashboard
script == <<comp, built, sim, call, arg, err, line, ret, nset, hist>>
dash == <<heap, cb>>

----------------------------------------------------------------------------
(* Bounds of the model *)

MaxMut == 3     \* parameter assignments per run (Spec)
MaxMutH == 2    \* parameter assignments per run (SpecHist)
MaxLog == 3     \* evaluations logged per run (SpecHist)
MaxN == 4       \* largest sample count passed to get_waveforms (Spec)
MaxNH == 1      \* largest sample count passed to get_waveforms (SpecHist)
MaxMutF == 2    \* parameter assignments per run (SpecFreq)
MaxNF == 1      \* largest sample count passed to a call (SpecFreq)

----------------------------------------------------------------------------
(* Float arithmetic, modelled exactly on rationals *)

AbsInt(x) == IF x < 0 THEN -x ELSE x

RECURSIVE GCD(_, _)
GCD(a, b) == IF b = 0 THEN a ELSE GCD(b, a % b)

\* n/d in lowest terms with a positive denominator (d # 0)
Norm(n, d) ==
    LET g == GCD(AbsInt(n), AbsInt(d))
        sgn == IF d < 0 THEN -1 ELSE 1
    IN  <<sgn * (n \div g), sgn * (d \div g)>>

R(n) == <<n, 1>>
Q(n, d) == Norm(n, d)

IsZero(a) == a[1] = 0

RNeg(a) == <<-a[1], a[2]>>

RAdd(a, b) ==
    LET g == GCD(a[2], b[2])
    IN  Norm(a[1] * (b[2] \div g) + b[1] * (a[2] \div g), (a[2] \div g) * b[2])

RSub(a, b) == RAdd(a, RNeg(b))

\* cross-cancelled before multiplying, so the products stay small
RMul(a, b) ==
    LET g1 == GCD(AbsInt(a[1]), b[2])
        g2 == GCD(AbsInt(b[1]), a[2])
    IN  Norm((a[1] \div g1) * (b[1] \div g2), (a[2] \div g2) * (b[2] \div g1))

\* a / b for b # 0 (the callers raise ZeroDivisionError when b = 0)
RDiv(a, b) == RMul(a, Norm(b[2], b[1]))

RLe(a, b) ==
    LET g == GCD(a[2], b[2])
    IN  a[1] * (b[2] \div g) <= b[1] * (a[2] \div g)

RLt(a, b) == RLe(a, b) /\ a # b

RAbs(a) == <<AbsInt(a[1]), a[2]>>


----------------------------------------------------------------------------
(* CEAComponents: the parameter object *)

\* the dataclass defaults
CEAComponents ==
    [Vcc |-> R(12), RB |-> R(100000), RC |-> R(4700), RE |-> R(1000),
     C1 |-> Q(1, 100000), C2 |-> Q(1, 100000), CE |-> Q(1, 10000),
     beta |-> R(100), VBE |-> Q(7, 10), Vin_amp |-> Q(1, 100),
     freq |-> R(1000)]

Fields == DOMAIN CEAComponents

\* The values a caller assigns to each field.  The dataclass checks nothing,
\* so zero is assignable to every field; the defaults are always included.
\* With the defaults elsewhere: RB = 0 makes line 34 divide by zero,
\* RE = -1000 line 38, Vcc = 0 with VBE = 0.052 line 58, freq = 0 line 96.
FieldValues ==
    [Vcc |-> {R(0), R(12)}, RB |-> {R(0), R(100000)},
     RC |-> {R(1000), R(4700)}, RE |-> {R(-1000), R(0), R(1000)},
     C1 |-> {Q(1, 100000)}, C2 |-> {Q(1, 100000)}, CE |-> {Q(1, 10000)},
     beta |-> {R(0), R(100)}, VBE |-> {Q(13, 250), Q(7, 10)},
     Vin_amp |-> {Q(1, 100), Q(1, 20)}, freq |-> {R(0), R(1000)}]

\* The values assigned in the logged runs: the fields the evaluation reads
HistFieldValues ==
    [f \in Fields |->
        IF f \in {"Vcc", "RB", "RC", "RE", "beta", "VBE"} THEN FieldValues[f]
        ELSE {CEAComponents[f]}]

\* the values assigned under SpecFreq: the capacitors, and beta for the gain
FreqFieldValues ==
    [f \in Fields |->
        CASE f = "C1" -> {R(0), Q(1, 1000000), Q(1, 100000)}
          [] f = "C2" -> {Q(1, 100000), Q(1, 10000000)}
          [] f = "CE" -> {Q(1, 10000), Q(1, 1000000)}
          [] f = "beta" -> FieldValues[f]
          [] OTHER -> {CEAComponents[f]}]

----------------------------------------------------------------------------
(* CEASimulator: the attributes of the object and its methods.  A method is *)
(* an operator from the components c and the attributes s before the call   *)
(* to [attrs, err, line, val]: the attributes after it, the exception it    *)
(* raised ("none" if it returned), the line that raised, the value returned.*)

Unset == <<>>     \* an attribute the object does not have (yet)

Attributes ==
    {"VTH", "RTH", "IB", "IC", "IE", "VE", "VB", "VC", "VCE",
     "gm", "Av_with_RE", "Av_bypassed", "Rin", "Rout"}

\* the object as __init__ finds it: no attribute but comp
NewObject == [a \in Attributes |-> Unset]

NoValue == [t |-> <<>>, vin |-> <<>>, vout |-> <<>>, vout_total |-> <<>>]

Return(s, v) == [attrs |-> s, err |-> "none", line |-> 0, val |-> v]

Raise(s, e, l) == [attrs |-> s, err |-> e, line |-> l, val |-> NoValue]

\* mutant: a thermal voltage of 25 mV
VT25 == Q(1, 40)

\* the thermal voltage, the literal 0.026
VT == Q(13, 500)

\* mutant: the base-emitter drop left out of the base current
BaseCurrentNoVBE(c) == RDiv(c.Vcc, RAdd(c.RB, RMul(c.beta, c.RE)))

BaseCurrent(c) == RDiv(RSub(c.Vcc, c.VBE), RAdd(c.RB, RMul(c.beta, c.RE)))

CollectorCurrent(c, IB) == RMul(c.beta, IB)

\* mutant: the emitter current as a difference
EmitterCurrentSub(IC, IB) == RSub(IC, IB)

EmitterCurrent(IC, IB) == RAdd(IC, IB)

calculate_operating_point(c, s) ==
    LET d34 == RAdd(c.RB, c.RB)
        d38 == RAdd(c.RB, RMul(c.beta, c.RE))
    IN  IF IsZero(d34) THEN Raise(s, "ZeroDivisionError", 34)
        ELSE LET s1 == [s EXCEPT !.VTH = RDiv(RMul(c.Vcc, c.RB), d34),
                                 !.RTH = c.RB]
             IN  IF IsZero(d38) THEN Raise(s1, "ZeroDivisionError", 38)
                 ELSE LET IB == BaseCurrent(c)
                          IC == CollectorCurrent(c, IB)
                          IE == EmitterCurrent(IC, IB)
                          VE == RMul(IE, c.RE)
                          VB == RAdd(c.VBE, VE)
                          VC == RSub(c.Vcc, RMul(IC, c.RC))
                          VCE == RSub(VC, VE)
                      IN  Return([s1 EXCEPT !.IB = IB, !.IC = IC, !.IE = IE,
                                            !.VE = VE, !.VB = VB, !.VC = VC,
                                            !.VCE = VCE], NoValue)

Transconductance(IC) == RDiv(IC, VT)

\* mutant: multiplied by (1 + gm*RE) instead of divided
GainWithREMul(gm, c, den) == RMul(RMul(RNeg(gm), c.RC), den)

\* -self.gm * self.comp.RC / (1 + self.gm * self.comp.RE), for den # 0
GainWithRE(gm, c, den) == RDiv(RMul(RNeg(gm), c.RC), den)

GainBypassed(gm, c) == RMul(RNeg(gm), c.RC)

calculate_ac_analysis(c, s) ==
    IF s.IC = Unset THEN Raise(s, "AttributeError", 55)
    ELSE LET gm == Transconductance(s.IC)
             s1 == [s EXCEPT !.gm = gm]
             d58 == RAdd(R(1), RMul(gm, c.RE))
         IN  IF IsZero(d58) THEN Raise(s1, "ZeroDivisionError", 58)
             ELSE Return([s1 EXCEPT !.Av_with_RE = GainWithRE(gm, c, d58),
                                    !.Av_bypassed = GainBypassed(gm, c),
                                    !.Rin = c.RB, !.Rout = c.RC], NoValue)

\* mutant: the AC analysis before the operating point
calculate_all_ac_first(c, s) ==
    LET r == calculate_ac_analysis(c, s)
    IN  IF r.err # "none" THEN r ELSE calculate_operating_point(c, r.attrs)

\* mutant: values already computed are kept (a cache never invalidated)
calculate_all_cached(c, s) ==
    IF s.IB # Unset /\ s.gm # Unset THEN Return(s, NoValue)
    ELSE LET r == calculate_operating_point(c, s)
         IN  IF r.err # "none" THEN r ELSE calculate_ac_analysis(c, r.attrs)

calculate_all(c, s) ==
    LET r == calculate_operating_point(c, s)
    IN  IF r.err # "none" THEN r ELSE calculate_ac_analysis(c, r.attrs)

\* __init__: self.comp = components, then calculate_all()
CEASimulator(c) == calculate_all(c, NewObject)


----------------------------------------------------------------------------
(* get_waveforms *)

\* mutant: the interval divided by num, so that the endpoint is left out
linspace_no_endpoint(start, stop, num) ==
    IF num <= 0 THEN <<>>
    ELSE LET step == RDiv(RSub(stop, start), R(num))
         IN  [i \in 1..num |-> RAdd(start, RMul(R(i - 1), step))]

\* np.linspace(start, stop, num) for num >= 0, endpoint included: no sample
\* for num = 0, the start alone for num = 1 (num < 0 raises in the caller)
linspace(start, stop, num) ==
    IF num <= 0 THEN <<>>
    ELSE IF num = 1 THEN <<start>>
    ELSE LET step == RDiv(RSub(stop, start), R(num - 1))
         IN  [i \in 1..num |-> RAdd(start, RMul(R(i - 1), step))]

\* u - 2*floor(u/2): the angle pi*u reduced to one period, 0 <= result < 2
ModTwo(u) == Norm(u[1] % (2 * u[2]), u[2])

\* sin(pi*v) for 0 <= v <= 1 by Bhaskara's rational approximation
\* 16v(1-v) / (5 - 4v(1-v)): exact at v = 0, 1/6, 1/2, 5/6, 1 and within
\* 0.002 of the sine elsewhere
HalfWave(v) ==
    LET p == RMul(v, RSub(R(1), v))
    IN  RDiv(RMul(R(16), p), RSub(R(5), RMul(R(4), p)))

\* np.sin(pi*u)
SinPi(u) ==
    LET r == ModTwo(u)
    IN  IF RLe(r, R(1)) THEN HalfWave(r) ELSE RNeg(HalfWave(RSub(r, R(1))))

\* self.comp.Vin_amp * np.sin(2 * np.pi * self.comp.freq * t)
InputSample(c, t) == RMul(c.Vin_amp, SinPi(RMul(R(2), RMul(c.freq, t))))

OutputSample(s, vin) == RMul(s.Av_bypassed, vin)

\* mutant: the AC swing subtracted from the DC level
TotalSampleSub(s, vout) == RSub(s.VC, vout)

TotalSample(s, vout) == RAdd(s.VC, vout)

\* the exception np.linspace(0, 5/self.comp.freq, t_points) raises: 5/freq
\* for freq = 0, np.linspace for a negative count
TimeAxisError(c, t_points) ==
    IF IsZero(c.freq) THEN "ZeroDivisionError"
    ELSE IF t_points < 0 THEN "ValueError"
    ELSE "none"

\* mutant: the last total output sample kept in the simulator
get_waveforms_storing(c, s, t_points) ==
    Return([s EXCEPT !.VC = R(t_points)], NoValue)

get_waveforms(c, s, t_points) ==
    IF TimeAxisError(c, t_points) # "none"
    THEN Raise(s, TimeAxisError(c, t_points), 96)
    ELSE LET t == linspace(R(0), RDiv(R(5), c.freq), t_points)
             vin == [i \in DOMAIN t |-> InputSample(c, t[i])]
             vout == [i \in DOMAIN t |-> OutputSample(s, vin[i])]
             vout_total == [i \in DOMAIN t |-> TotalSample(s, vout[i])]
         IN  Return(s, [t |-> t, vin |-> vin, vout |-> vout,
                        vout_total |-> vout_total])

----------------------------------------------------------------------------
(* calculate_frequency_response.  Frequencies and magnitudes span sixteen  *)
(* decades, so each is held as its base-10 logarithm, a rational number of *)
(* decades: a product of magnitudes is a sum of decades, and the magnitude *)
(* 0 is NegInf.  The transcendental functions are modelled by piecewise    *)
(* linear interpolations that are monotone and exact at their anchors.     *)

\* log10 of the magnitude 0 (np.log10(0) is -inf, with a warning)
NegInf == <<-1, 0>>

\* the floor of a non-negative rational to hundredths
Hundredths(y) == Q((100 * y[1]) \div y[2], 100)

\* log10 x for x > 0, interpolated linearly between the powers of ten and
\* kept to hundredths of a decade; exact at the powers of ten
RECURSIVE log10(_)
log10(x) ==
    IF RLt(x, R(1)) THEN RSub(log10(RMul(x, R(10))), R(1))
    ELSE IF RLe(R(10), x) THEN RAdd(log10(RDiv(x, R(10))), R(1))
    ELSE Hundredths(RDiv(RSub(x, R(1)), R(9)))

\* a magnitude x >= 0 in decades
Decades(x) == IF IsZero(x) THEN NegInf ELSE log10(x)

\* np.pi
Pi == Q(22, 7)

\* the samples of the sweep, np.logspace(1, 6, 1000)
SweepSamples == 1000

\* mutant: a sample short
logspace_short(start, stop, num) == linspace(R(start), R(stop), num - 1)

\* mutant: the sweep from the high end down
logspace_descending(start, stop, num) == linspace(R(stop), R(start), num)

\* np.logspace(start, stop, num) in decades: 10 ** linspace(start, stop, num)
logspace(start, stop, num) == linspace(R(start), R(stop), num)

\* mutant: the low corner taken from the output coupling capacitor
LowCornerProductC2(c, s) == RMul(RMul(RMul(R(2), Pi), s.Rin), c.C2)

\* 2 * np.pi * self.Rin * self.comp.C1, the divisor of fc_low
LowCornerProduct(c, s) == RMul(RMul(RMul(R(2), Pi), s.Rin), c.C1)

\* fc_high = 1e6, in Hz
fc_high == R(1000000)

\* 1 / sqrt(1 + (10^d)^2) in decades, d the decades above the corner:
\* 0 a decade below the corner and lower, -3/20 (3 dB) at the corner, -1 a
\* decade above it, -d further up
Rolloff(d) ==
    IF RLe(d, R(-1)) THEN R(0)
    ELSE IF RLe(d, R(0)) THEN RNeg(RMul(Q(3, 20), RAdd(d, R(1))))
    ELSE IF RLe(d, R(1)) THEN RNeg(RAdd(Q(3, 20), RMul(Q(17, 20), d)))
    ELSE RNeg(d)

\* H_low = f / sqrt(f^2 + fc_low^2) at the frequency of e decades
H_low(e, lo) == Rolloff(RSub(lo, e))

\* H_high = fc_high / sqrt(f^2 + fc_high^2) at the frequency of e decades
H_high(e, hi) == Rolloff(RSub(e, hi))

\* abs(self.Av_bypassed) * H_low * H_high
gain_magnitude(av, hl, hh) ==
    IF av = NegInf THEN NegInf ELSE RAdd(av, RAdd(hl, hh))

\* the floor 1e-10 of the magnitude, in decades
MagnitudeFloor == R(-10)

\* mutant: no floor under the magnitude
maximum_first(m, floor) == m

\* np.maximum(m, floor)
maximum(m, floor) == IF m = NegInf \/ RLe(m, floor) THEN floor ELSE m

\* 20 * np.log10(m) of a magnitude held in decades
gain_db(m) == IF m = NegInf THEN NegInf ELSE RMul(R(20), m)

\* np.arctan(10^d) * 180/np.pi: 0 a decade below the corner and lower, 45
\* at the corner, 90 a decade above it and higher
ArctanDegrees(d) ==
    IF RLe(d, R(-1)) THEN R(0)
    ELSE IF RLe(R(1), d) THEN R(90)
    ELSE RMul(R(45), RAdd(d, R(1)))

\* the phase at the frequency of e decades; fc_low has the sign of the
\* product, and arctan is odd
phase(e, lo, sgn, hi) ==
    RSub(RAdd(R(-180), RMul(R(sgn), ArctanDegrees(RSub(e, lo)))),
         ArctanDegrees(RSub(e, hi)))

\* fc_low = 1 / prod in decades, prod # 0
fc_low(prod) == RNeg(log10(RAbs(prod)))

\* fc_high in decades
fc_high_decades == log10(fc_high)

\* gain_db at the frequency of e decades, for the low corner of lo decades
\* and the bypassed gain of av decades
GainAt(lo, av, e) ==
    gain_db(maximum(gain_magnitude(av, H_low(e, lo),
                                   H_high(e, fc_high_decades)),
                    MagnitudeFloor))

\* phase at the frequency of e decades
PhaseAt(lo, sgn, e) == phase(e, lo, sgn, fc_high_decades)

\* the gain_db array along the sweep
GainAlong(frequencies, lo, av) ==
    [i \in DOMAIN frequencies |-> GainAt(lo, av, frequencies[i])]

\* the phase array along the sweep
PhaseAlong(frequencies, lo, sgn) ==
    [i \in DOMAIN frequencies |-> PhaseAt(lo, sgn, frequencies[i])]

\* sim.calculate_frequency_response(*args): the method takes no argument
\* but self
calculate_frequency_response(c, s, args) ==
    IF Len(args) > 0 THEN Raise(s, "TypeError", 69)
    ELSE IF s.Rin = Unset THEN Raise(s, "AttributeError", 74)
    ELSE LET frequencies == logspace(1, 6, SweepSamples)
             prod == LowCornerProduct(c, s)
             sgn == IF prod[1] < 0 THEN -1 ELSE 1
         IN  IF IsZero(prod) THEN Raise(s, "ZeroDivisionError", 74)
             ELSE IF s.Av_bypassed = Unset
                  THEN Raise(s, "AttributeError", 83)
             ELSE Return(s,
                    [frequencies |-> frequencies,
                     gain_db |-> GainAlong(frequencies, fc_low(prod),
                                           Decades(RAbs(s.Av_bypassed))),
                     phase |-> PhaseAlong(frequencies, fc_low(prod), sgn)])

----------------------------------------------------------------------------
(* create_unified_dashboard: the simulator built at set-up and the         *)
(* update_dashboard callback, which Dash runs on every slider change and   *)
(* may run concurrently.  A simulator object is [comp, attrs]; a figure is *)
(* the record of the values it is drawn from.                              *)

\* the callback invocations that can be in flight together
Callbacks == {"u1", "u2"}

\* the identities of the simulator objects: the one of line 268 and the one
\* each callback invocation creates
Objects == {"simulator"} \cup Callbacks

NoObject == [comp |-> <<>>, attrs |-> <<>>]

\* simulator = CEASimulator(default_components), lines 267-268
simulator ==
    [comp |-> CEAComponents, attrs |-> CEASimulator(CEAComponents).attrs]

\* min and max of each slider, lines 287-345
SliderRanges ==
    [vcc |-> {R(5), R(20)}, rb |-> {R(10), R(500)}, rc |-> {R(1), R(10)},
     re |-> {Q(1, 10), R(5)}, vin_mv |-> {R(1), R(50)},
     freq |-> {R(100), R(10000)}]

\* the value of each slider when the page loads
SliderDefaults ==
    [vcc |-> R(12), rb |-> R(100), rc |-> Q(47, 10), re |-> R(1),
     vin_mv |-> R(10), freq |-> R(1000)]

\* the slider positions of the model: every combination of range ends, and
\* the defaults
SliderSettings ==
    [vcc : SliderRanges.vcc, rb : SliderRanges.rb, rc : SliderRanges.rc,
     re : SliderRanges.re, vin_mv : SliderRanges.vin_mv,
     freq : SliderRanges.freq] \cup {SliderDefaults}

\* the slider positions of concurrent callbacks: the defaults, every slider
\* at its minimum, every slider at its maximum
ConcurrentSettings ==
    {SliderDefaults,
     [vcc |-> R(5), rb |-> R(10), rc |-> R(1), re |-> Q(1, 10),
      vin_mv |-> R(1), freq |-> R(100)],
     [vcc |-> R(20), rb |-> R(500), rc |-> R(10), re |-> R(5),
      vin_mv |-> R(50), freq |-> R(10000)]}

\* slider positions on the steps of the sliders at and next to the edge of
\* the active region: VCE is 2 V at the first three (in floats too), and one
\* RC step to either side of the first lie the last two
BoundarySettings ==
    {[SliderDefaults EXCEPT !.vcc = Q(17, 2), !.rb = R(310),
                            !.rc = Q(17, 10), !.re = R(5)],
     [SliderDefaults EXCEPT !.vcc = Q(29, 2), !.rb = R(190),
                            !.rc = Q(6, 5), !.re = R(5)],
     [SliderDefaults EXCEPT !.vcc = Q(39, 2), !.rb = R(440),
                            !.rc = Q(37, 10), !.re = R(5)],
     [SliderDefaults EXCEPT !.vcc = Q(17, 2), !.rb = R(310),
                            !.rc = Q(8, 5), !.re = R(5)],
     [SliderDefaults EXCEPT !.vcc = Q(17, 2), !.rb = R(310),
                            !.rc = Q(9, 5), !.re = R(5)]}

\* the slider positions of the operating-region label
RegionSettings == SliderSettings \cup BoundarySettings

\* mutant: the resistances taken in kilohms as the sliders give them
components_unscaled(a) ==
    [CEAComponents EXCEPT !.Vcc = a.vcc, !.RB = a.rb, !.RC = a.rc,
                          !.RE = a.re, !.Vin_amp = RDiv(a.vin_mv, R(1000)),
                          !.freq = a.freq]

\* components = CEAComponents(Vcc=vcc, RB=rb*1000, ...), lines 423-430
components(a) ==
    [CEAComponents EXCEPT !.Vcc = a.vcc,
                          !.RB = RMul(a.rb, R(1000)),
                          !.RC = RMul(a.rc, R(1000)),
                          !.RE = RMul(a.re, R(1000)),
                          !.Vin_amp = RDiv(a.vin_mv, R(1000)),
                          !.freq = a.freq]

\* f"{x:.1f}", f"{x:.2f}", f"{x:.3f}": x rounded to a multiple of 1/scale,
\* ties to the even one
Format(x, scale) ==
    LET y == RMul(x, R(scale))
        q == y[1] \div y[2]
        r == y[1] % y[2]
    IN  IF 2 * r < y[2] \/ (2 * r = y[2] /\ q % 2 = 0) THEN Q(q, scale)
        ELSE Q(q + 1, scale)

RMin(a, b) == IF RLe(a, b) THEN a ELSE b

\* create_interactive_circuit_diagram(simulator): the values of the hover
\* texts and of the node voltage labels
create_interactive_circuit_diagram(o) ==
    [Vin_amp |-> Format(RMul(o.comp.Vin_amp, R(1000)), 10),
     freq |-> o.comp.freq,
     RB |-> Format(RDiv(o.comp.RB, R(1000)), 10),
     IB |-> Format(RMul(o.attrs.IB, R(1000000)), 10),
     RC |-> Format(RDiv(o.comp.RC, R(1000)), 10),
     RE |-> Format(RDiv(o.comp.RE, R(1000)), 10),
     beta |-> o.comp.beta,
     VBE |-> o.comp.VBE,
     gm |-> Format(o.attrs.gm, 1000),
     Vcc |-> o.comp.Vcc,
     VB |-> Format(o.attrs.VB, 100),
     VC |-> Format(o.attrs.VC, 100),
     VE |-> Format(o.attrs.VE, 100)]

\* mutant: the comparisons of the label taken as inclusive
OperatingRegionInclusive(VCE, vcc) ==
    IF RLe(R(2), VCE) /\ RLe(VCE, RSub(vcc, R(2))) THEN "Active"
    ELSE "Not Active"

\* 'Active' if 2 < sim.VCE < vcc-2 else 'Not Active', line 447
OperatingRegion(VCE, vcc) ==
    IF RLt(R(2), VCE) /\ RLt(VCE, RSub(vcc, R(2))) THEN "Active"
    ELSE "Not Active"

\* op_display, lines 438-460: the values of the two alerts
op_display(o, vcc) ==
    [IB |-> Format(RMul(o.attrs.IB, R(1000000)), 10),
     IC |-> Format(RMul(o.attrs.IC, R(1000)), 10),
     VCE |-> Format(o.attrs.VCE, 100),
     region |-> OperatingRegion(o.attrs.VCE, vcc),
     Av |-> Format(o.attrs.Av_bypassed, 10),
     Rin |-> Format(RDiv(o.attrs.Rin, R(1000)), 10),
     gm |-> Format(o.attrs.gm, 1000),
     swing |-> Format(RMin(o.attrs.VC, RSub(vcc, o.attrs.VC)), 10)]

\* t_points=1000, the default sample count of get_waveforms
DefaultPoints == 1000

\* waveform_fig, lines 465-490, drawn from the n samples get_waveforms
\* returned for the simulator o: the time axis t*1000, and of the traces
\* vin*1000, vout_total and [sim.VC]*len(t) their first and last sample.
\* The samples kept are computed one by one, as get_waveforms computes them.
waveform_fig(o, n) ==
    LET t == linspace(R(0), RDiv(R(5), o.comp.freq), n)
        vin(i) == InputSample(o.comp, t[i])
        vout_total(i) ==
            TotalSample(o.attrs, OutputSample(o.attrs, vin(i)))
    IN  [x |-> [i \in 1..n |-> RMul(t[i], R(1000))],
         input |-> <<RMul(vin(1), R(1000)), RMul(vin(n), R(1000))>>,
         output |-> <<vout_total(1), vout_total(n)>>,
         dc |-> <<o.attrs.VC, o.attrs.VC>>]

\* freq_fig, lines 495-513: the traces gain_db and phase over frequencies
freq_fig(v) ==
    [x |-> v.frequencies, gain |-> v.gain_db, phase |-> v.phase]

\* rc_range and re_range, lines 516-517
rc_range == linspace(R(1), R(10), 20)
re_range == linspace(Q(1, 2), R(3), 20)

\* rc_val / re_val on numpy floats: inf, not an exception, for re_val = 0
SensitivityGain(rc_val, re_val) ==
    IF IsZero(re_val) THEN <<1, 0>> ELSE RDiv(rc_val, re_val)

\* sensitivity_fig, lines 516-540
sensitivity_fig ==
    [x |-> re_range, y |-> rc_range,
     z |-> [i \in DOMAIN rc_range |->
              [j \in DOMAIN re_range |->
                  SensitivityGain(rc_range[i], re_range[j])]]]

\* the five outputs before any is made
NoOutputs ==
    [circuit_fig |-> <<>>, op_display |-> <<>>, waveform_fig |-> <<>>,
     freq_fig |-> <<>>, sensitivity_fig |-> <<>>]

\* a callback invocation: where it is in update_dashboard, its six arguments,
\* the object its local name sim refers to, the outputs made so far, and the
\* exception that ended it
Idle ==
    [pc |-> "idle", args |-> <<>>, sim |-> "none", out |-> NoOutputs,
     err |-> "none", line |-> 0]

Started(a) == [Idle EXCEPT !.pc = "construct", !.args = a]

\* mutant: the callback recomputes the simulator made at set-up in place
SimulatorReused(u) == "simulator"

\* the object CEASimulator(components) creates in invocation u: a new one
NewSimulator(u) == u

----------------------------------------------------------------------------
(* The state machine: a caller holding the components object and, once a  *)
(* constructor call has returned, the simulator built on it.              *)

\* a completed evaluation is logged while the log has room (cap entries)
Logged(r, cap) ==
    IF r.err = "none" /\ Len(hist) < cap
    THEN Append(hist, [params |-> comp, vals |-> r.attrs])
    ELSE hist

Outcome(name, n, r) ==
    /\ call' = name
    /\ arg' = n
    /\ err' = r.err
    /\ line' = r.line
    /\ ret' = r.val

\* sim = CEASimulator(comp).  self.comp is a reference to the caller's
\* object, which the model holds once, as comp.  When __init__ raises, the
\* caller gets no object and keeps the simulator it had.
Construct(cap) ==
    LET r == CEASimulator(comp)
    IN  /\ built' = (built \/ r.err = "none")
        /\ sim' = IF r.err = "none" THEN r.attrs ELSE sim
        /\ Outcome("CEASimulator", 0, r)
        /\ hist' = Logged(r, cap)
        /\ UNCHANGED <<comp, nset, heap, cb>>

\* sim.calculate_all()
CalculateAll(cap) ==
    /\ built
    /\ LET r == calculate_all(comp, sim)
       IN  /\ sim' = r.attrs
           /\ Outcome("calculate_all", 0, r)
           /\ hist' = Logged(r, cap)
    /\ UNCHANGED <<comp, built, nset, heap, cb>>

\* sim.calculate_operating_point()
CalculateOperatingPoint ==
    /\ built
    /\ LET r == calculate_operating_point(comp, sim)
       IN  /\ sim' = r.attrs
           /\ Outcome("calculate_operating_point", 0, r)
    /\ UNCHANGED <<comp, built, nset, hist, heap, cb>>

\* sim.calculate_ac_analysis()
CalculateAcAnalysis ==
    /\ built
    /\ LET r == calculate_ac_analysis(comp, sim)
       IN  /\ sim' = r.attrs
           /\ Outcome("calculate_ac_analysis", 0, r)
    /\ UNCHANGED <<comp, built, nset, hist, heap, cb>>

\* sim.get_waveforms(n) for a sample count -1 <= n <= maxN
GetWaveforms(maxN) ==
    /\ built
    /\ \E n \in -1..maxN :
          LET r == get_waveforms(comp, sim, n)
          IN  /\ sim' = r.attrs
              /\ Outcome("get_waveforms", n, r)
    /\ UNCHANGED <<comp, built, nset, hist, heap, cb>>

\* sim.calculate_frequency_response(), or the same call with a sample
\* count -1 <= n <= maxN passed
CalculateFrequencyResponse(maxN) ==
    /\ built
    /\ \E args \in {<<>>} \cup {<<n>> : n \in -1..maxN} :
          LET r == calculate_frequency_response(comp, sim, args)
          IN  /\ sim' = r.attrs
              /\ Outcome("calculate_frequency_response", args, r)
    /\ UNCHANGED <<comp, built, nset, hist, heap, cb>>

\* the caller writes into the arrays a call returned: its own objects
ModifyReturned ==
    /\ call \in {"get_waveforms", "calculate_frequency_response"}
    /\ err = "none"
    /\ \A k \in DOMAIN ret : Len(ret[k]) >= 1
    /\ \E k \in DOMAIN ret \cap {"vout_total", "gain_db"} :
          ret' = [ret EXCEPT ![k][1] = RAdd(@, R(1))]
    /\ call' = "modify"
    /\ UNCHANGED <<comp, built, sim, arg, err, line, nset, hist, heap, cb>>

\* comp.<f> = v, a value of values[f]: CEAComponents is a plain (unfrozen)
\* dataclass.  At most maxMut assignments are made in a run.
SetField(values, maxMut) ==
    /\ nset < maxMut
    /\ \E f \in Fields : \E v \in values[f] \ {comp[f]} :
          comp' = [comp EXCEPT ![f] = v]
    /\ nset' = nset + 1
    /\ call' = "setattr"
    /\ arg' = 0
    /\ err' = "none"
    /\ line' = 0
    /\ ret' = NoValue
    /\ UNCHANGED <<built, sim, hist, heap, cb>>

\* the caller holds a default CEAComponents() and no simulator yet
Init ==
    /\ comp = CEAComponents
    /\ built = FALSE
    /\ sim = NewObject
    /\ call = "none"
    /\ arg = 0
    /\ err = "none"
    /\ line = 0
    /\ ret = NoValue
    /\ nset = 0
    /\ hist = <<>>
    /\ heap = [o \in Objects |-> IF o = "simulator" THEN simulator
                                 ELSE NoObject]
    /\ cb = [u \in Callbacks |-> Idle]

Next ==
    \/ Construct(0)
    \/ CalculateAll(0)
    \/ CalculateOperatingPoint
    \/ CalculateAcAnalysis
    \/ GetWaveforms(MaxN)
    \/ SetField(FieldValues, MaxMut)

Spec == Init /\ [][Next]_vars

\* the same program with its first MaxLog completed evaluations logged
NextHist ==
    \/ Construct(MaxLog)
    \/ CalculateAll(MaxLog)
    \/ CalculateOperatingPoint
    \/ CalculateAcAnalysis
    \/ GetWaveforms(MaxNH)
    \/ SetField(HistFieldValues, MaxMutH)

SpecHist == Init /\ [][NextHist]_vars

\* the same program with the frequency response, on parameter values that
\* move the capacitors and the gain
NextFreq ==
    \/ Construct(0)
    \/ CalculateAll(0)
    \/ CalculateFrequencyResponse(MaxNF)
    \/ GetWaveforms(MaxNF)
    \/ ModifyReturned
    \/ SetField(FreqFieldValues, MaxMutF)

SpecFreq == Init /\ [][NextFreq]_vars

\* Dash calls update_dashboard with the six slider values; the locals of
\* the invocation that returned before it are gone, its simulator with them
Begin(u, settings) ==
    /\ cb[u].pc \in {"idle", "done", "raised"}
    /\ \E a \in settings : cb' = [cb EXCEPT ![u] = Started(a)]
    /\ heap' = [heap EXCEPT ![u] = NoObject]
    /\ UNCHANGED script

\* the callback raised: it ends with no output
Raised(u, r) == [cb EXCEPT ![u].pc = "raised", ![u].out = NoOutputs,
                            ![u].err = r.err, ![u].line = r.line]

\* lines 423-433: components = CEAComponents(...); sim = CEASimulator(components)
Construction(u) ==
    /\ cb[u].pc = "construct"
    /\ LET c == components(cb[u].args)
           r == CEASimulator(c)
           o == NewSimulator(u)
       IN  IF r.err = "none"
           THEN /\ heap' = [heap EXCEPT ![o] = [comp |-> c, attrs |-> r.attrs]]
                /\ cb' = [cb EXCEPT ![u].pc = "circuit_fig", ![u].sim = o]
           ELSE /\ heap' = heap
                /\ cb' = Raised(u, r)
    /\ UNCHANGED script

\* line 436: circuit_fig = create_interactive_circuit_diagram(sim)
CircuitFigure(u) ==
    /\ cb[u].pc = "circuit_fig"
    /\ cb' = [cb EXCEPT ![u].pc = "op_display",
                        ![u].out.circuit_fig =
                            create_interactive_circuit_diagram(heap[cb[u].sim])]
    /\ UNCHANGED <<heap, script>>

\* lines 438-460: op_display = [...]
OperatingPointDisplay(u) ==
    /\ cb[u].pc = "op_display"
    /\ cb' = [cb EXCEPT ![u].pc = "waveform_fig",
                        ![u].out.op_display =
                            op_display(heap[cb[u].sim], cb[u].args.vcc)]
    /\ UNCHANGED <<heap, script>>

\* lines 463-490: sim.get_waveforms() and waveform_fig.  The call raises as
\* get_waveforms does and leaves the simulator as it is; of the samples it
\* returns, the figure keeps those waveform_fig names.
WaveformFigure(u) ==
    /\ cb[u].pc = "waveform_fig"
    /\ LET o == heap[cb[u].sim]
           e == TimeAxisError(o.comp, DefaultPoints)
       IN  cb' = IF e # "none" THEN Raised(u, Raise(o.attrs, e, 96))
                 ELSE [cb EXCEPT ![u].pc = "freq_fig",
                                 ![u].out.waveform_fig =
                                     waveform_fig(o, DefaultPoints)]
    /\ UNCHANGED <<heap, script>>

\* lines 493-513: sim.calculate_frequency_response() and freq_fig
FrequencyFigure(u) ==
    /\ cb[u].pc = "freq_fig"
    /\ LET o == heap[cb[u].sim]
           r == calculate_frequency_response(o.comp, o.attrs, <<>>)
       IN  /\ cb' = IF r.err # "none" THEN Raised(u, r)
                    ELSE [cb EXCEPT ![u].pc = "sensitivity_fig",
                                    ![u].out.freq_fig = freq_fig(r.val)]
           /\ heap' = [heap EXCEPT ![cb[u].sim].attrs = r.attrs]
    /\ UNCHANGED script

\* lines 516-540: the sensitivity heat map
SensitivityFigure(u) ==
    /\ cb[u].pc = "sensitivity_fig"
    /\ cb' = [cb EXCEPT ![u].pc = "return",
                        ![u].out.sensitivity_fig = sensitivity_fig]
    /\ UNCHANGED <<heap, script>>

\* line 542: return circuit_fig, op_display, waveform_fig, freq_fig,
\* sensitivity_fig
ReturnOutputs(u) ==
    /\ cb[u].pc = "return"
    /\ cb' = [cb EXCEPT ![u].pc = "done"]
    /\ UNCHANGED <<heap, script>>

\* one statement of the invocation u
Statement(u) ==
    \/ Construction(u)
    \/ CircuitFigure(u)
    \/ OperatingPointDisplay(u)
    \/ WaveformFigure(u)
    \/ FrequencyFigure(u)
    \/ SensitivityFigure(u)
    \/ ReturnOutputs(u)

\* the dashboard with one callback at a time, on every slider setting
NextDash ==
    \/ Begin("u1", SliderSettings)
    \/ Statement("u1")

SpecDash == Init /\ [][NextDash]_vars

\* the dashboard with two callbacks in flight, their statements interleaved
NextConc ==
    \E u \in Callbacks :
        \/ Begin(u, ConcurrentSettings)
        \/ Statement(u)

SpecConc == Init /\ [][NextConc]_vars

\* the dashboard with one callback, over the settings at the edge of the
\* active region as well
NextRegion ==
    \/ Begin("u1", RegionSettings)
    \/ Statement("u1")

SpecRegion == Init /\ [][NextRegion]_vars

----------------------------------------------------------------------------
(* Properties *)

\* the last step ran the operating-point computation to its end on the
\* simulator the caller holds (a calculate_all that raised at line 58 did)
OpCompleted ==
    /\ built
    /\ \/ call \in {"CEASimulator", "calculate_operating_point"} /\ err = "none"
       \/ call = "calculate_all" /\ (err = "none" \/ line = 58)

\* the last step ran the AC analysis to its end on that simulator
AcCompleted ==
    /\ built
    /\ call \in {"CEASimulator", "calculate_all", "calculate_ac_analysis"}
    /\ err = "none"

\* the last step was a complete evaluation: operating point, then AC analysis
Evaluated ==
    built /\ call \in {"CEASimulator", "calculate_all"} /\ err = "none"

\* the bias equations between the parameters c and the stored values s
OperatingPointHolds(c, s) ==
    LET den == RAdd(c.RB, RMul(c.beta, c.RE))
    IN  /\ ~IsZero(den)
        /\ RMul(s.IB, den) = RSub(c.Vcc, c.VBE)
        /\ s.IC = RMul(c.beta, s.IB)
        /\ s.IE = RAdd(s.IC, s.IB)
        /\ s.VE = RMul(s.IE, c.RE)
        /\ s.VB = RAdd(c.VBE, s.VE)
        /\ s.VC = RSub(c.Vcc, RMul(s.IC, c.RC))
        /\ s.VCE = RSub(s.VC, s.VE)

\* the small-signal equations between c, the stored IC and the stored values
AcHolds(c, s) ==
    LET den == RAdd(R(1), RMul(s.gm, c.RE))
    IN  /\ RMul(s.gm, Q(26, 1000)) = s.IC
        /\ s.Av_bypassed = RNeg(RMul(s.gm, c.RC))
        /\ ~IsZero(den)
        /\ RMul(s.Av_with_RE, den) = RNeg(RMul(s.gm, c.RC))
        /\ s.Rin = c.RB
        /\ s.Rout = c.RC

\* C1: whenever the operating-point computation has completed, the stored
\* IB, IC, IE, VE, VB, VC and VCE satisfy the bias equations for the
\* parameters it ran on.
C1_OperatingPointFormulas == OpCompleted => OperatingPointHolds(comp, sim)

\* C1 witness: a completed operating point on non-default parameters with a
\* non-zero base current
C1_Witness ==
    /\ OpCompleted
    /\ comp.RC = R(1000)
    /\ comp.VBE = Q(13, 250)
    /\ ~IsZero(sim.IB)

\* C2: whenever the AC analysis has completed, gm = IC/0.026 for the stored
\* collector current, Av_bypassed = -gm*RC, Av_with_RE = -gm*RC/(1 + gm*RE),
\* Rin = RB and Rout = RC.
C2_AcFormulas == AcCompleted => AcHolds(comp, sim)

\* C2 witness: an AC analysis completed on parameters changed since the
\* operating point was computed, with a non-zero transconductance
C2_Witness ==
    /\ AcCompleted
    /\ call = "calculate_ac_analysis"
    /\ ~OperatingPointHolds(comp, sim)
    /\ ~IsZero(sim.gm)

\* the attributes the claim C3 lists
ResultAttributes ==
    {"IB", "IC", "IE", "VE", "VB", "VC", "VCE",
     "gm", "Av_with_RE", "Av_bypassed", "Rin", "Rout"}

\* C3: when the constructor returns, the operating point and then the AC
\* analysis of that operating point have been computed; a simulator the
\* caller holds has every operating-point and AC attribute; and no operation
\* ever fails for want of one: the AC analysis never runs on an object
\* without an operating point.
C3_EagerConstruction ==
    /\ (call = "CEASimulator" /\ err = "none")
          => built /\ OperatingPointHolds(comp, sim) /\ AcHolds(comp, sim)
    /\ built => \A a \in ResultAttributes : sim[a] # Unset
    /\ err # "AttributeError"

\* C3 witness: the constructor has just returned a simulator built on
\* non-default parameters
C3_Witness ==
    /\ built
    /\ call = "CEASimulator"
    /\ err = "none"
    /\ comp # CEAComponents
    /\ \A a \in ResultAttributes : sim[a] # Unset


\* C4: the values of a completed evaluation depend on the parameter set
\* alone: any two logged evaluations on equal parameters, whatever was
\* evaluated before or between them, stored identical values.
C4_EvaluationDeterminedByParameters ==
    \A i, j \in DOMAIN hist :
        hist[i].params = hist[j].params => hist[i].vals = hist[j].vals

\* C4 witness: parameters A evaluated, then different parameters B, then A
C4_Witness ==
    /\ Len(hist) >= 3
    /\ hist[1].params = hist[3].params
    /\ hist[2].params # hist[1].params
    /\ hist[2].vals # hist[1].vals

\* C5 as claimed: in every state the stored operating-point and AC values
\* are the ones the formulas give for the current parameters.  An assignment
\* to a field of the shared components object refutes it.
C5_DerivedValuesNeverStale ==
    built => OperatingPointHolds(comp, sim) /\ AcHolds(comp, sim)

\* C6 as claimed: a calculate_all that raises leaves every attribute of the
\* simulator as it was before the call.  A ZeroDivisionError at line 58,
\* after the operating point and gm were overwritten, refutes it.
C6_FailedRecomputeKeepsPriorValues ==
    [][(built /\ call' = "calculate_all" /\ err' # "none") => sim' = sim]_vars

\* the step just taken ran the operating-point computation
RanOperatingPoint ==
    call \in {"CEASimulator", "calculate_all", "calculate_operating_point"}

\* C7 as claimed: with RB + beta*RE # 0 the operating-point computation
\* raises nothing.  RB = 0 with beta*RE # 0 refutes it: line 34 divides by
\* RB + RB.
C7_OnlyBiasDenominatorFails ==
    (RanOperatingPoint /\ ~IsZero(RAdd(comp.RB, RMul(comp.beta, comp.RE))))
        => ~(err = "ZeroDivisionError" /\ line \in {34, 38})

\* C8 as claimed: evaluating RB = 0, beta = 0, RE = 0 fails with
\* InvalidParameterError.  The code raises ZeroDivisionError instead.
C8_ZeroParametersInvalidParameterError ==
    (/\ RanOperatingPoint
     /\ IsZero(comp.RB) /\ IsZero(comp.beta) /\ IsZero(comp.RE))
        => err = "InvalidParameterError"

\* the data-model invariants on the fields other than RE
ValidOtherFields(c) ==
    /\ RLt(R(0), c.Vcc) /\ RLt(R(0), c.RB) /\ RLt(R(0), c.RC)
    /\ RLt(R(0), c.beta)
    /\ RLe(R(0), c.VBE) /\ RLt(c.VBE, c.Vcc)

\* C9: after an evaluation of valid parameters with RE >= 0, the gain with
\* the emitter resistor is no larger in magnitude than the bypassed gain, and
\* equal to it when RE = 0.
C9_GainWithRENotLarger ==
    (Evaluated /\ ValidOtherFields(comp) /\ RLe(R(0), comp.RE))
        => /\ RLe(RAbs(sim.Av_with_RE), RAbs(sim.Av_bypassed))
           /\ IsZero(comp.RE) => sim.Av_with_RE = sim.Av_bypassed

\* C9 witness: valid parameters with RE > 0, the gain strictly reduced
C9_Witness ==
    /\ Evaluated
    /\ ValidOtherFields(comp)
    /\ RLt(R(0), comp.RE)
    /\ RLt(RAbs(sim.Av_with_RE), RAbs(sim.Av_bypassed))

\* what C10 says of a returned value v for the sample count n
WaveformsAligned(s, v, n) ==
    /\ Len(v.t) = n /\ Len(v.vin) = n
    /\ Len(v.vout) = n /\ Len(v.vout_total) = n
    /\ \A i \in 1..n :
          /\ v.vout[i] = RMul(s.Av_bypassed, v.vin[i])
          /\ v.vout_total[i] = RAdd(s.VC, v.vout[i])

\* C10 as claimed: every get_waveforms(n) with n >= 1 returns four aligned
\* sequences of length n.  With freq = 0 the call raises at line 96.
C10_WaveformsForEverySampleCount ==
    (call = "get_waveforms" /\ arg >= 1)
        => err = "none" /\ WaveformsAligned(sim, ret, arg)

\* C10 amended: every get_waveforms(n) with n >= 1 on a simulator whose
\* input frequency is not zero returns four sequences of length n with
\* vout[i] = Av_bypassed * vin[i] and vout_total[i] = VC + vout[i].
C10_WaveformsForNonZeroFrequency ==
    (call = "get_waveforms" /\ arg >= 1 /\ ~IsZero(comp.freq))
        => err = "none" /\ WaveformsAligned(sim, ret, arg)

\* C10 witness: a returned waveform of at least four samples with a non-zero
\* output sample
C10_Witness ==
    /\ call = "get_waveforms"
    /\ err = "none"
    /\ arg >= 4
    /\ Len(ret.vout) = arg
    /\ \E i \in 1..arg : ~IsZero(ret.vout[i])


\* what C11 says of the time sequence t returned for the frequency f
SpansFivePeriods(t, f) ==
    /\ t[1] = R(0)
    /\ RMul(t[Len(t)], f) = R(5)
    /\ \A i \in 1..(Len(t) - 1) : RLe(t[i], t[i + 1])

\* C11 as claimed: for f > 0 and every n >= 1 the returned time sequence
\* starts at 0, ends at 5/f and is non-decreasing.  For n = 1 np.linspace
\* returns the start alone: the last sample is 0, not 5/f.
C11_TimeSpansFivePeriods ==
    (/\ call = "get_waveforms" /\ err = "none"
     /\ arg >= 1 /\ RLt(R(0), comp.freq))
        => Len(ret.t) = arg /\ SpansFivePeriods(ret.t, comp.freq)

\* C11 amended: for f > 0 and every n >= 2 the returned time sequence
\* starts at 0, ends at 5/f and is non-decreasing.
C11_TimeSpansFivePeriodsFromTwoSamples ==
    (/\ call = "get_waveforms" /\ err = "none"
     /\ arg >= 2 /\ RLt(R(0), comp.freq))
        => Len(ret.t) = arg /\ SpansFivePeriods(ret.t, comp.freq)

\* C11 witness: a returned time sequence of at least three samples
C11_Witness ==
    /\ call = "get_waveforms"
    /\ err = "none"
    /\ arg >= 3
    /\ RLt(R(0), comp.freq)
    /\ Len(ret.t) = arg
    /\ RLt(ret.t[1], ret.t[2])


\* lo <= x < hi
Between(lo, x, hi) == RLe(lo, x) /\ RLt(x, hi)

\* the six parameters of the worked example at their defaults
DefaultExample ==
    \A f \in {"Vcc", "RB", "RC", "RE", "beta", "VBE"} :
        comp[f] = CEAComponents[f]

Micro(x) == RMul(x, R(1000000))
Milli(x) == RMul(x, R(1000))

\* C15 as claimed: the defaults evaluate to IB = 56.6 uA, IC = 5.66 mA and
\* VE = 5.66 V to three significant figures.
C15_DefaultExampleAsStated ==
    (Evaluated /\ DefaultExample) =>
        /\ Between(Q(5655, 100), Micro(sim.IB), Q(5665, 100))
        /\ Between(Q(5655, 1000), Milli(sim.IC), Q(5665, 1000))
        /\ Between(Q(5655, 1000), sim.VE, Q(5665, 1000))

\* C15 amended: the defaults evaluate to IB = 56.5 uA, IC = 5.65 mA and
\* VE = 5.71 V to three significant figures (exactly 56.5 uA, 5.65 mA and
\* 5.7065 V).
C15_DefaultExample ==
    (Evaluated /\ DefaultExample) =>
        /\ Micro(sim.IB) = Q(565, 10)
        /\ Milli(sim.IC) = Q(565, 100)
        /\ sim.VE = Q(57065, 10000)
        /\ Between(Q(5705, 1000), sim.VE, Q(5715, 1000))

\* C15 witness: a simulator newly constructed on the default parameters
C15_Witness ==
    /\ Evaluated
    /\ call = "CEASimulator"
    /\ comp = CEAComponents
    /\ sim.VE # Unset


\* the last step was a frequency-response call on a simulator whose
\* Rin * C1 is not zero
FrequencyResponseCalled ==
    /\ built
    /\ call = "calculate_frequency_response"
    /\ ~IsZero(LowCornerProduct(comp, sim))

\* the three returned sequences have n entries each
SweepLength(n) ==
    /\ Len(ret.frequencies) = n
    /\ Len(ret.gain_db) = n
    /\ Len(ret.phase) = n

FrequencyResponseReturned ==
    built /\ call = "calculate_frequency_response" /\ err = "none"

\* C13: the returned frequencies are strictly increasing from 10 Hz to
\* 1,000,000 Hz, sample i lying 5(i-1)/999 decades above 10 Hz whatever the
\* circuit parameters, and the gain_dB and the phase at index i are those of
\* the frequency at index i.
C13_SweepAscendingAndAligned ==
    FrequencyResponseReturned =>
        LET f == ret.frequencies
            lo == fc_low(LowCornerProduct(comp, sim))
            av == Decades(RAbs(sim.Av_bypassed))
        IN  /\ f[1] = log10(R(10))
            /\ f[Len(f)] = log10(R(1000000))
            /\ \A i \in 1..(Len(f) - 1) : RLt(f[i], f[i + 1])
            /\ \A i \in 1..Len(f) :
                  /\ RMul(RSub(f[i], R(1)), R(SweepSamples - 1))
                        = R(5 * (i - 1))
                  /\ ret.gain_db[i] = GainAt(lo, av, f[i])
                  /\ ret.phase[i] = PhaseAt(lo, 1, f[i])

\* C13 witness: a returned sweep whose gain and phase change along it, on
\* parameters other than the defaults
C13_Witness ==
    /\ FrequencyResponseReturned
    /\ comp # CEAComponents
    /\ ret.gain_db[1] # ret.gain_db[SweepSamples]
    /\ ret.phase[1] # ret.phase[SweepSamples]

\* C14: with positive Rin and C1 every gain_dB sample is a number not below
\* -200 dB, also when the bypassed gain is 0.
C14_GainFloor ==
    (/\ built /\ call = "calculate_frequency_response" /\ arg = <<>>
     /\ RLt(R(0), sim.Rin) /\ RLt(R(0), comp.C1))
        => /\ err = "none"
           /\ \A i \in 1..Len(ret.gain_db) :
                 /\ ret.gain_db[i] # NegInf
                 /\ RLe(R(-200), ret.gain_db[i])

\* C14 witness: the sweep of a simulator whose bypassed gain is 0, at the
\* floor throughout
C14_Witness ==
    /\ FrequencyResponseReturned
    /\ IsZero(sim.Av_bypassed)
    /\ \A i \in 1..SweepSamples : ret.gain_db[i] = R(-200)


\* the last step passed a sample count of 0 or less to an on-demand call
NonPositiveCountPassed ==
    \/ call = "get_waveforms" /\ arg <= 0
    \/ call = "calculate_frequency_response" /\ arg # <<>> /\ arg[1] <= 0

\* C16: a waveform or frequency-response request with a sample count of 0
\* or less fails with InvalidArgumentError and returns no result.
C16_NonPositiveCountInvalidArgument ==
    NonPositiveCountPassed => err = "InvalidArgumentError" /\ ret = NoValue

\* the three returned sequences are those of the sweep for comp and sim
SweepAligned(c, s, v) ==
    LET lo == fc_low(LowCornerProduct(c, s))
        av == Decades(RAbs(s.Av_bypassed))
    IN  /\ v.frequencies[1] = log10(R(10))
        /\ \A i \in DOMAIN v.frequencies :
              /\ v.gain_db[i] = GainAt(lo, av, v.frequencies[i])
              /\ v.phase[i] = PhaseAt(lo, 1, v.frequencies[i])

\* C18: a step of get_waveforms or calculate_frequency_response leaves every
\* parameter field and every stored value as it was, and what it returns is
\* computed anew from them, whatever the caller wrote into the sequences
\* returned before.
C18_OnDemandLeavesSimulatorUnchanged ==
    [][call' \in {"get_waveforms", "calculate_frequency_response"} =>
          /\ comp' = comp /\ sim' = sim /\ built' = built
          /\ (call' = "get_waveforms" /\ err' = "none" /\ arg' >= 0)
                => WaveformsAligned(sim, ret', arg')
          /\ (call' = "calculate_frequency_response" /\ err' = "none")
                => SweepAligned(comp, sim, ret')]_vars

\* C18 witness: a sweep returned by a simulator that holds its twelve
\* derived values, after at least one parameter assignment
C18_Witness ==
    /\ FrequencyResponseReturned
    /\ nset >= 1
    /\ \A a \in Attributes : sim[a] # Unset
    /\ Len(ret.phase) = SweepSamples

\* the components c with C2 and CE at their defaults
WithDefaultC2CE(c) ==
    [c EXCEPT !.C2 = CEAComponents.C2, !.CE = CEAComponents.CE]

\* C19: what an evaluation stores and what the on-demand operations return
\* is what they store and return with C2 and CE at their defaults; the high
\* corner stays at 1,000,000 Hz, where the phase is -135 degrees.
C19_C2AndCEWithoutInfluence ==
    /\ Evaluated => sim = CEASimulator(WithDefaultC2CE(comp)).attrs
    /\ (built /\ call = "get_waveforms" /\ err = "none")
          => ret = get_waveforms(WithDefaultC2CE(comp), sim, arg).val
    /\ FrequencyResponseReturned
          => /\ ret = calculate_frequency_response(
                          WithDefaultC2CE(comp), sim, arg).val
             /\ ret.frequencies[SweepSamples] = log10(fc_high)
             /\ ret.phase[SweepSamples] = R(-135)

\* C19 witness: a sweep returned with both C2 and CE off their defaults
C19_Witness ==
    /\ FrequencyResponseReturned
    /\ comp.C2 # CEAComponents.C2
    /\ comp.CE # CEAComponents.CE
    /\ Len(ret.gain_db) = SweepSamples


\* the five outputs update_dashboard makes from the slider values a and
\* nothing else
OutputsOf(a) ==
    LET c == components(a)
        o == [comp |-> c, attrs |-> CEASimulator(c).attrs]
    IN  [circuit_fig |-> create_interactive_circuit_diagram(o),
         op_display |-> op_display(o, a.vcc),
         waveform_fig |-> waveform_fig(o, DefaultPoints),
         freq_fig |->
             freq_fig(calculate_frequency_response(c, o.attrs, <<>>).val),
         sensitivity_fig |-> sensitivity_fig]

\* C17: the simulator made at set-up is never written; the simulator an
\* update works on is the one it created; and every output an update has
\* made, with other updates running in between its statements, is the one
\* its own six slider values give: the supply label is its vcc, the time
\* axis ends at 5000/freq ms of its freq.
C17_UpdatesIsolated ==
    /\ heap["simulator"] = simulator
    /\ \A u \in Callbacks :
          /\ cb[u].sim \in {"none", u}
          /\ cb[u].pc # "idle" =>
                \A k \in DOMAIN NoOutputs :
                    cb[u].out[k] \in {<<>>, OutputsOf(cb[u].args)[k]}
          /\ cb[u].pc = "done" =>
                /\ \A k \in DOMAIN NoOutputs : cb[u].out[k] # <<>>
                /\ cb[u].out.circuit_fig.Vcc = cb[u].args.vcc
                /\ RMul(cb[u].out.waveform_fig.x[DefaultPoints],
                        cb[u].args.freq) = R(5000)

\* C17 witness: an update that has returned its outputs while another one,
\* on other slider values, is between its statements
C17_Witness ==
    /\ cb["u1"].pc = "done"
    /\ cb["u2"].pc \in {"op_display", "waveform_fig", "freq_fig"}
    /\ cb["u1"].args # cb["u2"].args
    /\ heap["u1"].comp # heap["u2"].comp
    /\ cb["u1"].out.op_display # cb["u2"].out.op_display

\* the parameters update_dashboard is to build from the slider values a
BuiltFromSliders(c, a) ==
    /\ c.Vcc = a.vcc
    /\ c.RB = RMul(a.rb, R(1000))
    /\ c.RC = RMul(a.rc, R(1000))
    /\ c.RE = RMul(a.re, R(1000))
    /\ RMul(c.Vin_amp, R(1000)) = a.vin_mv
    /\ c.freq = a.freq
    /\ \A f \in {"C1", "C2", "CE", "beta", "VBE"} : c[f] = CEAComponents[f]

\* the divisors of the evaluation and of the on-demand operations
DivisorsNonZero(o) ==
    /\ ~IsZero(RAdd(o.comp.RB, RMul(o.comp.beta, o.comp.RE)))
    /\ ~IsZero(RAdd(R(1), RMul(o.attrs.gm, o.comp.RE)))
    /\ ~IsZero(RMul(o.attrs.Rin, o.comp.C1))
    /\ ~IsZero(o.comp.freq)

\* C20: an update on slider values within the ranges raises nothing; once
\* its simulator is built, the parameters are Vcc, RB*1000, RC*1000,
\* RE*1000, amplitude/1000 and frequency with the other fields at their
\* defaults, and RB + beta*RE, 1 + gm*RE, Rin*C1 and the frequency are not
\* zero; no RE value of the sensitivity grid is zero.
C20_SliderUpdatesComplete ==
    \A u \in Callbacks :
        /\ cb[u].pc # "raised"
        /\ cb[u].err = "none"
        /\ cb[u].pc \notin {"idle", "construct"} =>
              /\ BuiltFromSliders(heap[cb[u].sim].comp, cb[u].args)
              /\ DivisorsNonZero(heap[cb[u].sim])
        /\ cb[u].pc \in {"return", "done"} =>
              \A j \in DOMAIN cb[u].out.sensitivity_fig.x :
                  ~IsZero(cb[u].out.sensitivity_fig.x[j])

\* C20 witness: an update completed with every slider at its minimum
C20_Witness ==
    /\ cb["u1"].pc = "done"
    /\ \A k \in DOMAIN SliderRanges :
          \A v \in SliderRanges[k] : RLe(cb["u1"].args[k], v)
    /\ Len(cb["u1"].out.freq_fig.gain) = SweepSamples
    /\ Len(cb["u1"].out.sensitivity_fig.z) = 20

\* the collector-emitter voltage lines 38-50 give for the slider values a:
\* VCE = vcc - IB*(beta*RC + (beta + 1)*RE), IB = (vcc - VBE)/(RB + beta*RE)
SliderVCE(a) ==
    LET RB == RMul(a.rb, R(1000))
        RC == RMul(a.rc, R(1000))
        RE == RMul(a.re, R(1000))
        IB == RDiv(RSub(a.vcc, Q(7, 10)), RAdd(RB, RMul(R(100), RE)))
    IN  RSub(a.vcc, RMul(IB, RAdd(RMul(R(100), RC), RMul(R(101), RE))))

\* an update that has made its operating-point display
RegionLabelled(u) ==
    /\ cb[u].pc \notin {"idle", "raised"}
    /\ cb[u].out.op_display # <<>>

\* C21: in every update that has made its operating-point display, the
\* simulator's VCE is the one its slider values give, and the region label
\* is "Active" when 2 < VCE and VCE < vcc - 2 (both strict, vcc the slider
\* value of this update), "Not Active" otherwise.
C21_RegionLabel ==
    \A u \in Callbacks :
        RegionLabelled(u) =>
            LET VCE == heap[cb[u].sim].attrs.VCE
                vcc == cb[u].args.vcc
                region == cb[u].out.op_display.region
            IN  /\ VCE = SliderVCE(cb[u].args)
                /\ region \in {"Active", "Not Active"}
                /\ region = "Active" <=>
                       /\ RLt(R(2), VCE)
                       /\ RLt(RAdd(VCE, R(2)), vcc)

\* C21 witness: an update labelled "Not Active" with VCE exactly 2 V below
\* a supply above 4 V
C21_Witness ==
    /\ RegionLabelled("u1")
    /\ heap["u1"].attrs.VCE = R(2)
    /\ RLt(R(4), cb["u1"].args.vcc)
    /\ cb["u1"].out.op_display.region = "Not Active"

\* an update labelled "Active"
C21_ActiveReached ==
    /\ RegionLabelled("u1")
    /\ cb["u1"].out.op_display.region = "Active"

\* an update labelled "Not Active" with VCE above vcc - 2
C21_AboveReached ==
    /\ RegionLabelled("u1")
    /\ RLt(cb["u1"].args.vcc, RAdd(heap["u1"].attrs.VCE, R(2)))
    /\ cb["u1"].out.op_display.region = "Not Active"

\* the defaults labelled "Not Active": VCE is negative
C21_DefaultsReached ==
    /\ RegionLabelled("u1")
    /\ cb["u1"].args = SliderDefaults
    /\ RLt(heap["u1"].attrs.VCE, R(0))
    /\ cb["u1"].out.op_display.region = "Not Active"

============================================================================
